---- MODULE Spec2Model ----
(***************************************************************************)
(* Model of Telegram/SourceFiles/mtproto/session.h:                        *)
(*   - ReceivedMsgIds: the window of received message ids (QMap msgId ->   *)
(*     needAck), with registerMsgId / min / max / shrink / lookup / clear; *)
(*   - SessionData: the identity block (_session, _salt, _messagesSent,    *)
(*     _authKey, _keyChecked, _layerInited) behind the read/write lock     *)
(*     _lock, with its setters and nextRequestSeqNumber.                   *)
(* Three specifications share the variables:                               *)
(*   SpecWindow   one caller working on a ReceivedMsgIds;                  *)
(*   SpecSession  one caller working on a SessionData (whole calls);       *)
(*   SpecThreads  two threads working on one SessionData, every call cut   *)
(*                into its steps around QWriteLocker.                      *)
(***************************************************************************)
EXTENDS Integers, Sequences, FiniteSets, TLC

(***************************************************************************)
(* Bounds of the model.                                                    *)
(***************************************************************************)
\* mtpMsgId is uint64; the model draws ids from 0..MaxMsgId.
MaxMsgId == 4
\* The capacity of the window.  session.h uses the constant without
\* defining it (it comes from mtproto/core_types.h); the model scales it down.
MTPIdsBufferSize == 3
\* Session ids (uint64, compared only) are drawn from 0..MaxSessionId.
MaxSessionId == 2
\* Salts (uint64, stored only) are drawn from 0..MaxSalt.
MaxSalt == 1
\* Keys: 0 is the null AuthKeyPtr, 1..MaxKey are distinct key objects.
MaxKey == 2
\* At most MaxCalls ack-needing nextRequestSeqNumber calls per epoch.
MaxCalls == 3
\* the longest SerializedMessage looked at, in 32-bit words
MaxResponseLen == 8
\* the words of a SerializedMessage are -1 .. MaxWord
MaxWord == 1
\* request ids are 1 .. MaxRequestId
MaxRequestId == 2
\* msg ids given to outgoing requests are 1 .. MaxSent
MaxSent == 2

MsgIds == 0..MaxMsgId
SessionIds == 0..MaxSessionId
Salts == 0..MaxSalt
Keys == 0..MaxKey

VARIABLES
    idsNeedAck,     \* ReceivedMsgIds::_idsNeedAck: function tracked id -> needAck
    session,        \* SessionData::_session
    salt,           \* SessionData::_salt
    messagesSent,   \* SessionData::_messagesSent, a uint32 as <<high 16, low 16>>
    authKey,        \* SessionData::_authKey (0 = null)
    keyChecked,     \* SessionData::_keyChecked
    layerInited,    \* SessionData::_layerInited
    op,             \* the call that ran last (all but SpecThreads)
    argN,           \* its numeric argument (msgId, session, salt, key)
    argB,           \* its boolean argument (needAck, was, checked)
    ret,            \* what it returned
    taken,          \* whether it took its mutating branch
    given,          \* history: id -> needAck of every id accepted since the last clear()
    ackCalls,       \* SpecSession history: ack-needing nextRequestSeqNumber calls since _messagesSent was last zeroed
    prevSent,       \* SpecSession history: _messagesSent as the last SessionData call found it
    returned,       \* SpecSession history: the numbers nextRequestSeqNumber returned since the last
                    \* setSession to another id or setKey to another key
    lastAck,        \* SpecSession history: the last ack-needing number among them, <<>> if none
    lock,           \* SpecThreads: _lock, [w |-> the writer or "none", r |-> the set of readers]
    pc,             \* SpecThreads: per thread, the step it is at
    loc,            \* SpecThreads: per thread, the locals of its call
    issued,         \* SpecThreads history: the ack-needing numbers returned since _messagesSent
                    \* was last zeroed, in the order returned, each with its caller
    response,       \* SpecResponse: a SerializedMessage, the sequence of its 32-bit words
    killed,         \* Session::_killed
    state,          \* SpecController: the lifecycle state of the Session
    toSend,         \* SessionData::_toSend: request id -> request (its needAck flag)
    haveSent,       \* SessionData::_haveSent: msg id -> [requestId, needAck, seqNo]
    toResend,       \* SessionData::_toResend: msg id -> request id
    fired,          \* SpecController history: the request ids whose callback has fired
    lastMsgId,      \* SpecController: the msg id given out last
    lastRequestId   \* SpecController: the request id given out last

windowVars == <<idsNeedAck, given>>
identityVars == <<session, salt, messagesSent, authKey, keyChecked, layerInited>>
callVars == <<op, argN, argB, ret, taken>>
historyVars == <<ackCalls, prevSent, returned, lastAck>>
threadVars == <<lock, pc, loc, issued>>
bufferVars == <<response>>
queueVars == <<toSend, haveSent, toResend>>
controllerVars == <<killed, state, toSend, haveSent, toResend, fired, lastMsgId, lastRequestId>>
vars == <<idsNeedAck, session, salt, messagesSent, authKey, keyChecked, layerInited,
          op, argN, argB, ret, taken, given, ackCalls, prevSent, returned, lastAck,
          lock, pc, loc, issued, response,
          killed, state, toSend, haveSent, toResend, fired, lastMsgId, lastRequestId>>

(***************************************************************************)
(* uint32 arithmetic.  A uint32 is <<hi, lo>>, two 16-bit halves, so that  *)
(* the whole 32-bit range and its wrap-around are representable.           *)
(***************************************************************************)
Half == 2^16
U32(n) == <<(n \div Half) % Half, n % Half>>
Zero32 == U32(0)
\* bug variant: the sum sticks at 2^32 - 1 instead of wrapping round
Add32Saturating(a, b) ==
    LET lo == a[2] + b[2]
        hi == a[1] + b[1] + (lo \div Half)
    IN  IF hi >= Half THEN <<Half - 1, Half - 1>> ELSE <<hi, lo % Half>>

Add32(a, b) ==
    LET lo == a[2] + b[2]
        hi == a[1] + b[1] + (lo \div Half)
    IN  <<hi % Half, lo % Half>>
Less32(a, b) == a[1] < b[1] \/ (a[1] = b[1] /\ a[2] < b[2])

(***************************************************************************)
(* ReceivedMsgIds                                                          *)
(***************************************************************************)
Size(m) == Cardinality(DOMAIN m)

isEmpty(m) == DOMAIN m = {}

\* cbegin().key(): QMap iterates in key order
FirstKey(m) == CHOOSE k \in DOMAIN m : \A j \in DOMAIN m : k <= j

\* (--cend()).key()
LastKey(m) == CHOOSE k \in DOMAIN m : \A j \in DOMAIN m : j <= k

min(m) == IF isEmpty(m) THEN 0 ELSE FirstKey(m)

max(m) == IF isEmpty(m) THEN 0 ELSE LastKey(m)

\* constFind(msgId) != cend()
Found(m, msgId) == msgId \in DOMAIN m

\* QMap::insert(key, value)
insert(m, k, v) == [x \in DOMAIN m \cup {k} |-> IF x = k THEN v ELSE m[x]]

\* bug variant: erases the last entry instead of the first
EraseLast(m) == [x \in DOMAIN m \ {LastKey(m)} |-> m[x]]

\* QMap::erase(begin())
EraseBegin(m) == [x \in DOMAIN m \ {FirstKey(m)} |-> m[x]]

\* bug variant: the capacity test forgotten, only the comparison with min()
MayInsertMinOnly(m, msgId) == msgId > min(m)

\* bug variant: no test at all, every unseen id is taken
MayInsertAlways(m, msgId) == TRUE

\* the condition of line 39
MayInsert(m, msgId) == Size(m) < MTPIdsBufferSize \/ msgId > min(m)

\* bug variant: the constFind test forgotten, a tracked id is stored again
registerMsgIdMapOverwrite(m, msgId, needAck) ==
    IF MayInsert(m, msgId) THEN insert(m, msgId, needAck) ELSE m

\* bug variant: an insert into a full map evicts the smallest id
registerMsgIdMapEvicting(m, msgId, needAck) ==
    IF ~Found(m, msgId) /\ MayInsert(m, msgId)
    THEN IF Size(m) >= MTPIdsBufferSize
         THEN EraseBegin(insert(m, msgId, needAck))
         ELSE insert(m, msgId, needAck)
    ELSE m

\* the map after registerMsgId(msgId, needAck)
registerMsgIdMap(m, msgId, needAck) ==
    IF ~Found(m, msgId) /\ MayInsert(m, msgId) THEN insert(m, msgId, needAck) ELSE m

\* the value registerMsgId(msgId, needAck) returns
registerMsgIdResult(m, msgId) == ~Found(m, msgId) /\ MayInsert(m, msgId)

\* the loop of shrink(): while (size-- > MTPIdsBufferSize) erase(begin())
RECURSIVE ShrinkLoop(_, _)
ShrinkLoop(m, size) ==
    IF size > MTPIdsBufferSize THEN ShrinkLoop(EraseBegin(m), size - 1) ELSE m

\* bug variant: the loop test off by one (size-- >= MTPIdsBufferSize)
RECURSIVE ShrinkLoopOffByOne(_, _)
ShrinkLoopOffByOne(m, size) ==
    IF size >= MTPIdsBufferSize /\ ~isEmpty(m)
    THEN ShrinkLoopOffByOne(EraseBegin(m), size - 1) ELSE m

shrinkMapOffByOne(m) == ShrinkLoopOffByOne(m, Size(m))

shrinkMap(m) == ShrinkLoop(m, Size(m))

lookup(m, msgId) ==
    IF ~Found(m, msgId) THEN "NotFound"
    ELSE IF m[msgId] THEN "NeedsAck" ELSE "NoAckNeeded"

EmptyMap == [x \in {} |-> FALSE]

\* bug variant: clear() only trims the map to the buffer size
clearMapShrinks(m) == shrinkMap(m)

\* _idsNeedAck.clear()
clearMap(m) == EmptyMap

(***************************************************************************)
(* SessionData: the bodies of the identity methods, as functions of the    *)
(* fields they read.                                                       *)
(***************************************************************************)
\* bug variant: the key comparison forgotten, every setKey takes the branch
KeyDiffersAlways(cur, key) == TRUE

\* _authKey != key (line 139): AuthKeyPtr compares the pointers
KeyDiffers(cur, key) == cur # key

\* _session != session (lines 108, 145)
SessionDiffers(cur, new) == cur # new

\* _session after the block of lines 108-111 / 145-148
SessionAfter(cur, new) == IF SessionDiffers(cur, new) THEN new ELSE cur

\* bug variant: the counter is never zeroed
SentAfterNeverZero(cur, new, sent) == sent

\* _messagesSent after the block of lines 108-111 / 145-148
SentAfter(cur, new, sent) == IF SessionDiffers(cur, new) THEN Zero32 ELSE sent

\* (needAck ? 1 : 0) as a uint32
AckBit(needAck) == U32(IF needAck THEN 1 ELSE 0)

\* _messagesSent += (needAck ? 1 : 0) (line 245)
NextMessagesSent(sent, needAck) == Add32(sent, AckBit(needAck))

\* bug variant: the number is computed from the counter after its increment
SeqNumberAfterIncrement(sent, needAck) ==
    Add32(Add32(Add32(sent, AckBit(needAck)), Add32(sent, AckBit(needAck))), AckBit(needAck))

\* result * 2 + (needAck ? 1 : 0) (lines 244, 246), in uint32 arithmetic
SeqNumber(sent, needAck) == Add32(Add32(sent, sent), AckBit(needAck))

(***************************************************************************)
(* Initial state: a freshly constructed SessionData (the default member    *)
(* initialisers of lines 252-261) holding an empty ReceivedMsgIds.         *)
(***************************************************************************)
Threads == {"net", "main"}

NoLocals == [n |-> 0, b |-> FALSE, result |-> Zero32, rnd |-> 0]

Unlocked == [w |-> "none", r |-> {}]

Init ==
    /\ idsNeedAck = EmptyMap
    /\ session = 0
    /\ salt = 0
    /\ messagesSent = Zero32
    /\ authKey = 0
    /\ keyChecked = FALSE
    /\ layerInited = FALSE
    /\ op = "none"
    /\ argN = 0
    /\ argB = FALSE
    /\ ret = "void"
    /\ taken = FALSE
    /\ given = EmptyMap
    /\ ackCalls = 0
    /\ prevSent = Zero32
    /\ returned = {}
    /\ lastAck = <<>>
    /\ lock = Unlocked
    /\ pc = [t \in Threads |-> "idle"]
    /\ loc = [t \in Threads |-> NoLocals]
    /\ issued = <<>>
    /\ response = <<>>
    /\ killed = FALSE
    /\ state = "Stopped"
    /\ toSend = EmptyMap
    /\ haveSent = EmptyMap
    /\ toResend = EmptyMap
    /\ fired = {}
    /\ lastMsgId = 0
    /\ lastRequestId = 0

(***************************************************************************)
(* SpecWindow: the calls of ReceivedMsgIds, each a whole call.             *)
(***************************************************************************)
Called(name, n, b, r, t) ==
    /\ op' = name
    /\ argN' = n
    /\ argB' = b
    /\ ret' = r
    /\ taken' = t

RegisterMsgId(msgId, needAck) ==
    LET ok == registerMsgIdResult(idsNeedAck, msgId)
    IN  /\ idsNeedAck' = registerMsgIdMap(idsNeedAck, msgId, needAck)
        /\ given' = IF ok THEN insert(given, msgId, needAck) ELSE given
        /\ Called("registerMsgId", msgId, needAck, ok, ok)
        /\ UNCHANGED <<identityVars, historyVars, threadVars, bufferVars, controllerVars>>

Min ==
    /\ Called("min", 0, FALSE, min(idsNeedAck), FALSE)
    /\ UNCHANGED <<windowVars, identityVars, historyVars, threadVars, bufferVars, controllerVars>>

Max ==
    /\ Called("max", 0, FALSE, max(idsNeedAck), FALSE)
    /\ UNCHANGED <<windowVars, identityVars, historyVars, threadVars, bufferVars, controllerVars>>

Shrink ==
    /\ idsNeedAck' = shrinkMap(idsNeedAck)
    /\ Called("shrink", 0, FALSE, "void", Size(idsNeedAck) > MTPIdsBufferSize)
    /\ UNCHANGED <<given, identityVars, historyVars, threadVars, bufferVars, controllerVars>>

Lookup(msgId) ==
    /\ Called("lookup", msgId, FALSE, lookup(idsNeedAck, msgId), FALSE)
    /\ UNCHANGED <<windowVars, identityVars, historyVars, threadVars, bufferVars, controllerVars>>

Clear ==
    /\ idsNeedAck' = clearMap(idsNeedAck)
    /\ given' = EmptyMap
    /\ Called("clear", 0, FALSE, "void", ~isEmpty(idsNeedAck))
    /\ UNCHANGED <<identityVars, historyVars, threadVars, bufferVars, controllerVars>>

NextWindow ==
    \/ \E msgId \in MsgIds, needAck \in BOOLEAN : RegisterMsgId(msgId, needAck)
    \/ Min
    \/ Max
    \/ Shrink
    \/ \E msgId \in MsgIds : Lookup(msgId)
    \/ Clear

SpecWindow == Init /\ [][NextWindow]_vars

(***************************************************************************)
(* SpecSession: the identity methods of SessionData, each a whole call of  *)
(* a single caller.                                                        *)
(***************************************************************************)
SetSession(new) ==
    /\ session' = SessionAfter(session, new)
    /\ messagesSent' = SentAfter(session, new, messagesSent)
    /\ ackCalls' = IF SessionDiffers(session, new) THEN 0 ELSE ackCalls
    /\ prevSent' = messagesSent
    /\ returned' = IF SessionDiffers(session, new) THEN {} ELSE returned
    /\ lastAck' = IF SessionDiffers(session, new) THEN <<>> ELSE lastAck
    /\ Called("setSession", new, FALSE, "void", SessionDiffers(session, new))
    /\ UNCHANGED <<salt, authKey, keyChecked, layerInited, windowVars, threadVars, bufferVars, controllerVars>>

SetLayerWasInited(was) ==
    /\ layerInited' = was
    /\ prevSent' = messagesSent
    /\ Called("setLayerWasInited", 0, was, "void", TRUE)
    /\ UNCHANGED <<session, salt, messagesSent, authKey, keyChecked, ackCalls,
                   returned, lastAck, windowVars, threadVars, bufferVars, controllerVars>>

\* bug variant: a new salt restarts the sequence-number series
SetSaltRestarting(new) ==
    /\ salt' = new
    /\ messagesSent' = IF salt # new THEN Zero32 ELSE messagesSent
    /\ prevSent' = messagesSent
    /\ Called("setSalt", new, FALSE, "void", TRUE)
    /\ UNCHANGED <<session, authKey, keyChecked, layerInited, ackCalls,
                   returned, lastAck, windowVars, threadVars, bufferVars, controllerVars>>

SetSalt(new) ==
    /\ salt' = new
    /\ prevSent' = messagesSent
    /\ Called("setSalt", new, FALSE, "void", TRUE)
    /\ UNCHANGED <<session, messagesSent, authKey, keyChecked, layerInited, ackCalls,
                   returned, lastAck, windowVars, threadVars, bufferVars, controllerVars>>

\* rnd is the value rand_value<uint64>() returns when the branch is taken
SetKey(key, rnd) ==
    /\ IF KeyDiffers(authKey, key)
       THEN /\ authKey' = key
            /\ session' = SessionAfter(session, rnd)
            /\ messagesSent' = SentAfter(session, rnd, messagesSent)
            /\ ackCalls' = IF SessionDiffers(session, rnd) THEN 0 ELSE ackCalls
            /\ layerInited' = FALSE
            /\ returned' = {}
            /\ lastAck' = <<>>
       ELSE UNCHANGED <<authKey, session, messagesSent, ackCalls, layerInited,
                        returned, lastAck>>
    /\ prevSent' = messagesSent
    /\ Called("setKey", key, FALSE, "void", KeyDiffers(authKey, key))
    /\ UNCHANGED <<salt, keyChecked, windowVars, threadVars, bufferVars, controllerVars>>

SetCheckedKey(checked) ==
    /\ keyChecked' = checked
    /\ prevSent' = messagesSent
    /\ Called("setCheckedKey", 0, checked, "void", TRUE)
    /\ UNCHANGED <<session, salt, messagesSent, authKey, layerInited, ackCalls,
                   returned, lastAck, windowVars, threadVars, bufferVars, controllerVars>>

NextRequestSeqNumber(needAck) ==
    /\ needAck => ackCalls < MaxCalls
    /\ messagesSent' = NextMessagesSent(messagesSent, needAck)
    /\ ackCalls' = IF needAck THEN ackCalls + 1 ELSE ackCalls
    /\ prevSent' = messagesSent
    /\ returned' = returned \cup {SeqNumber(messagesSent, needAck)}
    /\ lastAck' = IF needAck THEN <<SeqNumber(messagesSent, needAck)>> ELSE lastAck
    /\ Called("nextRequestSeqNumber", 0, needAck, SeqNumber(messagesSent, needAck), needAck)
    /\ UNCHANGED <<session, salt, authKey, keyChecked, layerInited, windowVars, threadVars, bufferVars, controllerVars>>

NextSession ==
    \/ \E new \in SessionIds : SetSession(new)
    \/ \E was \in BOOLEAN : SetLayerWasInited(was)
    \/ \E new \in Salts : SetSalt(new)
    \/ \E key \in Keys, rnd \in SessionIds : SetKey(key, rnd)
    \/ \E checked \in BOOLEAN : SetCheckedKey(checked)
    \/ \E needAck \in BOOLEAN : NextRequestSeqNumber(needAck)

SpecSession == Init /\ [][NextSession]_vars

(***************************************************************************)
(* SpecWide: SpecSession entered with _messagesSent anywhere near the      *)
(* borders of the uint32 range: a session that has sent that many          *)
(* ack-needing messages since the counter was last zeroed.                 *)
(***************************************************************************)
\* the weight of bit 31 within the high half of a uint32
TopBit == Half \div 2

WideCounters ==
    {<<hi, lo>> : hi \in {0, TopBit - 1, Half - 1},
                 lo \in {0, Half - 2, Half - 1}}

InitWide ==
    /\ messagesSent \in WideCounters
    /\ prevSent = messagesSent
    /\ idsNeedAck = EmptyMap
    /\ session = 0
    /\ salt = 0
    /\ authKey = 0
    /\ keyChecked = FALSE
    /\ layerInited = FALSE
    /\ op = "none"
    /\ argN = 0
    /\ argB = FALSE
    /\ ret = "void"
    /\ taken = FALSE
    /\ given = EmptyMap
    /\ ackCalls = 0
    /\ returned = {}
    /\ lastAck = <<>>
    /\ lock = Unlocked
    /\ pc = [t \in Threads |-> "idle"]
    /\ loc = [t \in Threads |-> NoLocals]
    /\ issued = <<>>
    /\ response = <<>>
    /\ killed = FALSE
    /\ state = "Stopped"
    /\ toSend = EmptyMap
    /\ haveSent = EmptyMap
    /\ toResend = EmptyMap
    /\ fired = {}
    /\ lastMsgId = 0
    /\ lastRequestId = 0

SpecWide == InitWide /\ [][NextSession]_vars

(***************************************************************************)
(* SpecResponse: ResponseNeedsAck applied to a SerializedMessage, any      *)
(* sequence of at most MaxResponseLen words.                               *)
(***************************************************************************)
\* response.size() < 8 (line 91)
MinResponseSize == 8

\* response.constData() + 6 (line 94)
SeqNoOffset == 6

\* the values of an mtpBuffer element, a signed 32-bit word
Words == -1 .. MaxWord

Responses == UNION {[1..n -> Words] : n \in 0..MaxResponseLen}

\* bug variant: the size is compared with the offset of the field read
TooShortBelowOffset(buf) == Len(buf) < SeqNoOffset

\* the test of line 91
TooShort(buf) == Len(buf) < MinResponseSize

\* *(uint32*)(buf.constData() + i), the values the read can give: the word
\* at index i taken as unsigned, and anything at all when i is past the end
ReadUint32(buf, i) ==
    IF i < Len(buf) THEN {U32(buf[i + 1])} ELSE {U32(w) : w \in Words}

\* seqNo & 0x01
LowBit(u) == u[2] % 2

InitResponse ==
    /\ response \in Responses
    /\ idsNeedAck = EmptyMap
    /\ session = 0
    /\ salt = 0
    /\ messagesSent = Zero32
    /\ authKey = 0
    /\ keyChecked = FALSE
    /\ layerInited = FALSE
    /\ op = "none"
    /\ argN = 0
    /\ argB = FALSE
    /\ ret = "void"
    /\ taken = FALSE
    /\ given = EmptyMap
    /\ ackCalls = 0
    /\ prevSent = Zero32
    /\ returned = {}
    /\ lastAck = <<>>
    /\ lock = Unlocked
    /\ pc = [t \in Threads |-> "idle"]
    /\ loc = [t \in Threads |-> NoLocals]
    /\ issued = <<>>
    /\ killed = FALSE
    /\ state = "Stopped"
    /\ toSend = EmptyMap
    /\ haveSent = EmptyMap
    /\ toResend = EmptyMap
    /\ fired = {}
    /\ lastMsgId = 0
    /\ lastRequestId = 0

ResponseNeedsAck ==
    /\ IF TooShort(response)
       THEN Called("ResponseNeedsAck", 0, FALSE, FALSE, FALSE)
       ELSE \E seqNo \in ReadUint32(response, SeqNoOffset) :
                Called("ResponseNeedsAck", SeqNoOffset, FALSE, LowBit(seqNo) # 0, TRUE)
    /\ UNCHANGED <<windowVars, identityVars, historyVars, threadVars, bufferVars,
                   controllerVars>>

NextResponse == ResponseNeedsAck

SpecResponse == InitResponse /\ [][NextResponse]_vars

(***************************************************************************)
(* SpecController: the Session that owns a SessionData.  session.h only    *)
(* declares its methods (lines 285-370); what they do is taken from the    *)
(* design description: the lifecycle Stopped, Starting, Active,            *)
(* Restarting, Killed, and the path of a request through _toSend,          *)
(* _haveSent and _toResend.  Each action is a whole call.                  *)
(***************************************************************************)
RequestIds == 1..MaxRequestId

SentMsgIds == 1..MaxSent

\* bug variant: the flag is never looked at
IsKilledNever(k) == FALSE

\* the test of _killed at the start of every public operation
IsKilled(k) == k

\* the map m without the keys ks
Without(m, ks) == [x \in DOMAIN m \ ks |-> m[x]]

\* the request ids of the entries ids of _haveSent
RequestsOf(hs, ids) == {hs[m].requestId : m \in ids}

\* bug variant: the requests resent are not put back into _toSend
ToSendAfterResendForgetting(ts, hs, ids) == ts

\* _toSend after the entries ids of _haveSent are resent: their requests
\* are waiting to be sent again
ToSendAfterResend(ts, hs, ids) ==
    [r \in DOMAIN ts \cup RequestsOf(hs, ids) |->
        IF r \in DOMAIN ts THEN ts[r]
        ELSE hs[CHOOSE m \in ids : hs[m].requestId = r].needAck]

\* _toResend after the entries ids of _haveSent are resent: msg id -> request id
ToResendAfterResend(tr, hs, ids) ==
    [m \in DOMAIN tr \cup ids |-> IF m \in ids THEN hs[m].requestId ELSE tr[m]]

\* the entries ids of _haveSent move to _toResend / _toSend
Requeue(ids) ==
    /\ toSend' = ToSendAfterResend(toSend, haveSent, ids)
    /\ haveSent' = Without(haveSent, ids)
    /\ toResend' = ToResendAfterResend(toResend, haveSent, ids)

\* what no method of Session touches
ControllerFrame == UNCHANGED <<given, historyVars, threadVars, bufferVars>>

LifecycleFrame ==
    /\ ControllerFrame
    /\ UNCHANGED <<idsNeedAck, identityVars, killed, queueVars, fired, lastMsgId,
                   lastRequestId>>

QueueFrame ==
    /\ ControllerFrame
    /\ UNCHANGED <<idsNeedAck, identityVars, killed, state, fired, lastMsgId, lastRequestId>>

\* start(): Stopped / Restarting -> Starting
Start ==
    LET go == ~IsKilled(killed) /\ state \in {"Stopped", "Restarting"}
    IN  /\ state' = IF go THEN "Starting" ELSE state
        /\ Called("start", 0, FALSE, "void", go)
        /\ LifecycleFrame

\* onConnectionStateChange(): the transport reports ready, Starting -> Active
OnConnectionStateChange ==
    LET go == ~IsKilled(killed) /\ state = "Starting"
    IN  /\ state' = IF go THEN "Active" ELSE state
        /\ Called("onConnectionStateChange", 0, FALSE, "void", go)
        /\ LifecycleFrame

\* restart(): any state but Killed -> Restarting, the queues kept
Restart ==
    LET go == ~IsKilled(killed)
    IN  /\ state' = IF go THEN "Restarting" ELSE state
        /\ Called("restart", 0, FALSE, "void", go)
        /\ LifecycleFrame

\* stop(): any state but Killed -> Stopped, the queues kept
Stop ==
    LET go == ~IsKilled(killed)
    IN  /\ state' = IF go THEN "Stopped" ELSE state
        /\ Called("stop", 0, FALSE, "void", go)
        /\ LifecycleFrame

\* kill(): -> Killed; the requests are removed and the identity is cleared
Kill ==
    LET go == ~IsKilled(killed)
    IN  /\ killed' = TRUE
        /\ state' = "Killed"
        /\ IF go
           THEN /\ toSend' = EmptyMap
                /\ haveSent' = EmptyMap
                /\ toResend' = EmptyMap
                /\ session' = 0
                /\ salt' = 0
                /\ messagesSent' = Zero32
                /\ layerInited' = FALSE
           ELSE UNCHANGED <<queueVars, session, salt, messagesSent, layerInited>>
        /\ Called("kill", 0, FALSE, "void", go)
        /\ ControllerFrame
        /\ UNCHANGED <<idsNeedAck, authKey, keyChecked, fired, lastMsgId, lastRequestId>>

\* send(request): stores the request in _toSend under a new request id
Send(needAck) ==
    /\ ~IsKilled(killed) => lastRequestId < MaxRequestId
    /\ IF IsKilled(killed)
       THEN /\ UNCHANGED <<toSend, lastRequestId>>
            /\ Called("send", 0, needAck, 0, FALSE)
       ELSE /\ lastRequestId' = lastRequestId + 1
            /\ toSend' = insert(toSend, lastRequestId + 1, needAck)
            /\ Called("send", 0, needAck, lastRequestId + 1, TRUE)
    /\ ControllerFrame
    /\ UNCHANGED <<idsNeedAck, identityVars, killed, state, haveSent, toResend, fired,
                   lastMsgId>>

\* sendPrepared(request): the request gets a new msg id and the next
\* sequence number and moves from _toSend to _haveSent
SendPrepared(requestId) ==
    LET go == ~IsKilled(killed) /\ requestId \in DOMAIN toSend
    IN  /\ go => lastMsgId < MaxSent
        /\ IF go
           THEN /\ lastMsgId' = lastMsgId + 1
                /\ messagesSent' = NextMessagesSent(messagesSent, toSend[requestId])
                /\ haveSent' = insert(haveSent, lastMsgId + 1,
                                      [requestId |-> requestId,
                                       needAck |-> toSend[requestId],
                                       seqNo |-> SeqNumber(messagesSent, toSend[requestId])])
                /\ toSend' = Without(toSend, {requestId})
                /\ toResend' = Without(toResend,
                                       {m \in DOMAIN toResend : toResend[m] = requestId})
           ELSE UNCHANGED <<lastMsgId, messagesSent, queueVars>>
        /\ Called("sendPrepared", requestId, FALSE, "void", go)
        /\ ControllerFrame
        /\ UNCHANGED <<idsNeedAck, session, salt, authKey, keyChecked, layerInited, killed,
                       state, fired, lastRequestId>>

\* resend(msgId): the entry of _haveSent moves to _toResend / _toSend
Resend(msgId) ==
    LET go == ~IsKilled(killed) /\ msgId \in DOMAIN haveSent
    IN  /\ IF go THEN Requeue({msgId}) ELSE UNCHANGED queueVars
        /\ Called("resend", msgId, FALSE, IF go THEN haveSent[msgId].requestId ELSE 0, go)
        /\ QueueFrame

\* resendMany(msgIds)
ResendMany(msgIds) ==
    LET ids == IF IsKilled(killed) THEN {} ELSE msgIds \cap DOMAIN haveSent
    IN  /\ Requeue(ids)
        /\ Called("resendMany", Cardinality(msgIds), FALSE, "void", ids # {})
        /\ QueueFrame

\* resendAll(): every entry of _haveSent is resent
ResendAll ==
    LET ids == IF IsKilled(killed) THEN {} ELSE DOMAIN haveSent
    IN  /\ Requeue(ids)
        /\ Called("resendAll", 0, FALSE, "void", ids # {})
        /\ QueueFrame

\* checkRequestsByTimer(): the entries of _haveSent past their deadline
\* (any of them) are resent, and the received ids are shrunk
CheckRequestsByTimer(late) ==
    LET ids == IF IsKilled(killed) THEN {} ELSE late \cap DOMAIN haveSent
    IN  /\ Requeue(ids)
        /\ idsNeedAck' = IF IsKilled(killed) THEN idsNeedAck ELSE shrinkMap(idsNeedAck)
        /\ Called("checkRequestsByTimer", 0, FALSE, "void", ids # {})
        /\ ControllerFrame
        /\ UNCHANGED <<identityVars, killed, state, fired, lastMsgId, lastRequestId>>

\* tryToReceive(): the response to msgId has arrived, the request is
\* removed and its callback fires
TryToReceive(msgId) ==
    LET go == ~IsKilled(killed) /\ msgId \in DOMAIN haveSent
    IN  /\ haveSent' = IF go THEN Without(haveSent, {msgId}) ELSE haveSent
        /\ fired' = IF go THEN fired \cup {haveSent[msgId].requestId} ELSE fired
        /\ Called("tryToReceive", msgId, FALSE, "void", go)
        /\ ControllerFrame
        /\ UNCHANGED <<idsNeedAck, identityVars, killed, state, toSend, toResend,
                       lastMsgId, lastRequestId>>

NextController ==
    \/ Start
    \/ OnConnectionStateChange
    \/ Restart
    \/ Stop
    \/ Kill
    \/ \E needAck \in BOOLEAN : Send(needAck)
    \/ \E requestId \in RequestIds : SendPrepared(requestId)
    \/ \E msgId \in SentMsgIds : Resend(msgId)
    \/ \E msgIds \in SUBSET SentMsgIds : ResendMany(msgIds)
    \/ ResendAll
    \/ \E late \in SUBSET SentMsgIds : CheckRequestsByTimer(late)
    \/ \E msgId \in SentMsgIds : TryToReceive(msgId)

SpecController == Init /\ [][NextController]_vars

(***************************************************************************)
(* SpecThreads: two threads (the network thread and the main, processing   *)
(* thread) call nextRequestSeqNumber, setSession, setKey and getSession on *)
(* one SessionData.  A call is cut at every point where the other thread   *)
(* can run: before QWriteLocker / QReadLocker gets _lock, and between the  *)
(* statements of nextRequestSeqNumber.  setKey compares and assigns        *)
(* _authKey (lines 139-141) before it takes _lock (line 144).              *)
(***************************************************************************)
\* bug variant: the write lock is granted whoever holds _lock
CanLockForWriteAlways(l) == TRUE

\* QWriteLocker: QReadWriteLock::lockForWrite() returns once there is
\* neither a writer nor a reader
CanLockForWrite(l) == l.w = "none" /\ l.r = {}

\* bug variant: a reader is let in while a writer holds _lock
CanLockForReadAlways(l) == TRUE

\* QReadLocker: QReadWriteLock::lockForRead() returns once there is no writer
CanLockForRead(l) == l.w = "none"

LockedForWrite(l, t) == [l EXCEPT !.w = t]

LockedForRead(l, t) == [l EXCEPT !.r = @ \cup {t}]

\* bug variant: the write lock is not given back
UnlockedWriteKeeps(l, t) == l

\* ~QWriteLocker
UnlockedWrite(l, t) == [l EXCEPT !.w = "none"]

\* ~QReadLocker
UnlockedRead(l, t) == [l EXCEPT !.r = @ \ {t}]

Goto(t, to, locals) ==
    /\ pc[t] # to
    /\ pc' = [pc EXCEPT ![t] = to]
    /\ loc' = [loc EXCEPT ![t] = locals]

ThreadFrame ==
    UNCHANGED <<windowVars, callVars, historyVars, salt, keyChecked, bufferVars, controllerVars>>

\* nextRequestSeqNumber(needAck) is called: line 242
SeqCall(t, needAck) ==
    /\ pc[t] = "idle"
    /\ needAck => Len(issued) < MaxCalls
    /\ Goto(t, "seq_lock", [NoLocals EXCEPT !.b = needAck])
    /\ UNCHANGED <<session, messagesSent, authKey, layerInited, lock, issued>>
    /\ ThreadFrame

\* QWriteLocker locker(&_lock): line 243
SeqLock(t) ==
    /\ pc[t] = "seq_lock"
    /\ CanLockForWrite(lock)
    /\ lock' = LockedForWrite(lock, t)
    /\ Goto(t, "seq_read", loc[t])
    /\ UNCHANGED <<session, messagesSent, authKey, layerInited, issued>>
    /\ ThreadFrame

\* auto result = _messagesSent: line 244
SeqRead(t) ==
    /\ pc[t] = "seq_read"
    /\ Goto(t, "seq_inc", [loc[t] EXCEPT !.result = messagesSent])
    /\ UNCHANGED <<session, messagesSent, authKey, layerInited, lock, issued>>
    /\ ThreadFrame

\* _messagesSent += (needAck ? 1 : 0): line 245
SeqInc(t) ==
    /\ pc[t] = "seq_inc"
    /\ messagesSent' = NextMessagesSent(messagesSent, loc[t].b)
    /\ Goto(t, "seq_ret", loc[t])
    /\ UNCHANGED <<session, authKey, layerInited, lock, issued>>
    /\ ThreadFrame

\* return result * 2 + (needAck ? 1 : 0), then ~QWriteLocker: lines 246-247
SeqReturn(t) ==
    /\ pc[t] = "seq_ret"
    /\ issued' = IF loc[t].b
                 THEN Append(issued, [by |-> t, seq |-> SeqNumber(loc[t].result, loc[t].b)])
                 ELSE issued
    /\ lock' = UnlockedWrite(lock, t)
    /\ Goto(t, "idle", NoLocals)
    /\ UNCHANGED <<session, messagesSent, authKey, layerInited>>
    /\ ThreadFrame

\* setSession(new) is called: line 104
SetSessionCall(t, new) ==
    /\ pc[t] = "idle"
    /\ Goto(t, "ses_lock", [NoLocals EXCEPT !.n = new])
    /\ UNCHANGED <<session, messagesSent, authKey, layerInited, lock, issued>>
    /\ ThreadFrame

\* QWriteLocker locker(&_lock): line 107
SetSessionLock(t) ==
    /\ pc[t] = "ses_lock"
    /\ CanLockForWrite(lock)
    /\ lock' = LockedForWrite(lock, t)
    /\ Goto(t, "ses_body", loc[t])
    /\ UNCHANGED <<session, messagesSent, authKey, layerInited, issued>>
    /\ ThreadFrame

\* lines 108-112, under the lock, then ~QWriteLocker
SetSessionBody(t) ==
    /\ pc[t] = "ses_body"
    /\ session' = SessionAfter(session, loc[t].n)
    /\ messagesSent' = SentAfter(session, loc[t].n, messagesSent)
    /\ issued' = IF SessionDiffers(session, loc[t].n) THEN <<>> ELSE issued
    /\ lock' = UnlockedWrite(lock, t)
    /\ Goto(t, "idle", NoLocals)
    /\ UNCHANGED <<authKey, layerInited>>
    /\ ThreadFrame

\* setKey(key) is called and finds _authKey != key: lines 138-139
\* (with _authKey == key it returns at once, having changed nothing)
SetKeyCompare(t, key) ==
    /\ pc[t] = "idle"
    /\ KeyDiffers(authKey, key)
    /\ Goto(t, "key_set", [NoLocals EXCEPT !.n = key])
    /\ UNCHANGED <<session, messagesSent, authKey, layerInited, lock, issued>>
    /\ ThreadFrame

\* session = rand_value<uint64>(); _authKey = key: lines 140-141, no lock held
SetKeyAssign(t, rnd) ==
    /\ pc[t] = "key_set"
    /\ authKey' = loc[t].n
    /\ Goto(t, "key_lock", [loc[t] EXCEPT !.rnd = rnd])
    /\ UNCHANGED <<session, messagesSent, layerInited, lock, issued>>
    /\ ThreadFrame

\* QWriteLocker locker(&_lock): line 144
SetKeyLock(t) ==
    /\ pc[t] = "key_lock"
    /\ CanLockForWrite(lock)
    /\ lock' = LockedForWrite(lock, t)
    /\ Goto(t, "key_body", loc[t])
    /\ UNCHANGED <<session, messagesSent, authKey, layerInited, issued>>
    /\ ThreadFrame

\* lines 145-150, under the lock, then ~QWriteLocker
SetKeyBody(t) ==
    /\ pc[t] = "key_body"
    /\ session' = SessionAfter(session, loc[t].rnd)
    /\ messagesSent' = SentAfter(session, loc[t].rnd, messagesSent)
    /\ issued' = IF SessionDiffers(session, loc[t].rnd) THEN <<>> ELSE issued
    /\ layerInited' = FALSE
    /\ lock' = UnlockedWrite(lock, t)
    /\ Goto(t, "idle", NoLocals)
    /\ UNCHANGED authKey
    /\ ThreadFrame

\* getSession() is called and QReadLocker gets _lock: lines 113-114
GetSessionLock(t) ==
    /\ pc[t] = "idle"
    /\ CanLockForRead(lock)
    /\ lock' = LockedForRead(lock, t)
    /\ Goto(t, "get_ret", NoLocals)
    /\ UNCHANGED <<session, messagesSent, authKey, layerInited, issued>>
    /\ ThreadFrame

\* return _session, then ~QReadLocker: lines 115-116
GetSessionReturn(t) ==
    /\ pc[t] = "get_ret"
    /\ lock' = UnlockedRead(lock, t)
    /\ Goto(t, "idle", NoLocals)
    /\ UNCHANGED <<session, messagesSent, authKey, layerInited, issued>>
    /\ ThreadFrame

NextThreads ==
    \E t \in Threads :
        \/ \E needAck \in BOOLEAN : SeqCall(t, needAck)
        \/ SeqLock(t)
        \/ SeqRead(t)
        \/ SeqInc(t)
        \/ SeqReturn(t)
        \/ \E new \in SessionIds : SetSessionCall(t, new)
        \/ SetSessionLock(t)
        \/ SetSessionBody(t)
        \/ \E key \in Keys : SetKeyCompare(t, key)
        \/ \E rnd \in SessionIds : SetKeyAssign(t, rnd)
        \/ SetKeyLock(t)
        \/ SetKeyBody(t)
        \/ GetSessionLock(t)
        \/ GetSessionReturn(t)

SpecThreads == Init /\ [][NextThreads]_vars

\* the steps of thread t that wait for nothing: the scheduler runs them
RunStep(t) ==
    \/ SeqRead(t)
    \/ SeqInc(t)
    \/ SeqReturn(t)
    \/ SetSessionBody(t)
    \/ \E rnd \in SessionIds : SetKeyAssign(t, rnd)
    \/ SetKeyBody(t)
    \/ GetSessionReturn(t)

\* the steps of thread t that wait for the write side of _lock
LockStep(t) ==
    \/ SeqLock(t)
    \/ SetSessionLock(t)
    \/ SetKeyLock(t)

\* SpecThreads with a scheduler that keeps running every thread and a
\* QReadWriteLock that lets in every waiting writer in the end
SpecThreadsFair ==
    /\ SpecThreads
    /\ \A t \in Threads : WF_vars(RunStep(t)) /\ SF_vars(LockStep(t))

(***************************************************************************)
(* Claims about ReceivedMsgIds, checked under SpecWindow.                  *)
(***************************************************************************)
AckState(needAck) == IF needAck THEN "NeedsAck" ELSE "NoAckNeeded"

\* the k largest ids of a set
Largest(S, k) == {x \in S : Cardinality({y \in S : y > x}) < k}

\* C1: registerMsgId(id, needAck) returns true and inserts id with exactly
\* the given flag iff id is not tracked and (size < capacity or id >
\* min()); otherwise it returns false and the window is unchanged.  In
\* particular at size >= capacity an id <= min() is refused with no change.
C1_RegisterContract ==
    [][op' = "registerMsgId" =>
        LET id == argN'
            accept == /\ id \notin DOMAIN idsNeedAck
                      /\ \/ Size(idsNeedAck) < MTPIdsBufferSize
                         \/ id > min(idsNeedAck)
        IN  /\ ret' = accept
            /\ accept =>
                /\ DOMAIN idsNeedAck' = DOMAIN idsNeedAck \cup {id}
                /\ idsNeedAck'[id] = argB'
                /\ \A x \in DOMAIN idsNeedAck : idsNeedAck'[x] = idsNeedAck[x]
            /\ ~accept => idsNeedAck' = idsNeedAck
            /\ (Size(idsNeedAck) >= MTPIdsBufferSize /\ id <= min(idsNeedAck))
                => (ret' = FALSE /\ idsNeedAck' = idsNeedAck)
    ]_vars

\* C1 witness: a full window has refused an untracked id below its minimum
C1_Witness ==
    /\ op = "registerMsgId"
    /\ ret = FALSE
    /\ Size(idsNeedAck) >= MTPIdsBufferSize
    /\ argN \notin DOMAIN idsNeedAck
    /\ argN < min(idsNeedAck)

\* C2: with no clear() in between, registerMsgId returns true at most once
\* for any id, also for an id accepted earlier and evicted by shrink since.
C2_ReplayRejected ==
    [][(op' = "registerMsgId" /\ ret' = TRUE) => argN' \notin DOMAIN given]_vars

\* C2 witness: an id that was accepted and then evicted is refused
C2_Witness ==
    /\ op = "registerMsgId"
    /\ ret = FALSE
    /\ argN \in DOMAIN given
    /\ argN \notin DOMAIN idsNeedAck

\* C3: lookup of a tracked id returns the ack state given when it was first
\* accepted, lookup of an id never accepted returns NotFound, an id accepted
\* while the window is under capacity is tracked at once and stays tracked
\* until shrink evicts it from a full window, and registering a tracked id
\* again, with either flag, returns false and leaves the stored state.
C3_LookupStored ==
    /\ [](\A id \in MsgIds :
            /\ id \in DOMAIN idsNeedAck =>
                 /\ id \in DOMAIN given
                 /\ lookup(idsNeedAck, id) = AckState(given[id])
            /\ id \notin DOMAIN given => lookup(idsNeedAck, id) = "NotFound"
            /\ (id \in DOMAIN given /\ id \notin DOMAIN idsNeedAck) =>
                 (Size(idsNeedAck) >= MTPIdsBufferSize /\ id < min(idsNeedAck)))
    /\ [][/\ (op' = "lookup" /\ argN' \in DOMAIN given /\ argN' \in DOMAIN idsNeedAck)
              => ret' = AckState(given[argN'])
          /\ (op' = "lookup" /\ argN' \notin DOMAIN given) => ret' = "NotFound"
          /\ (op' = "registerMsgId" /\ argN' \notin DOMAIN idsNeedAck
                  /\ Size(idsNeedAck) < MTPIdsBufferSize)
              => (ret' = TRUE /\ lookup(idsNeedAck', argN') = AckState(argB'))
          /\ (op' = "registerMsgId" /\ argN' \in DOMAIN idsNeedAck)
              => (ret' = FALSE /\ idsNeedAck' = idsNeedAck)
         ]_vars

\* C3 witness: a tracked id was registered again with the other flag
C3_Witness ==
    /\ op = "registerMsgId"
    /\ ret = FALSE
    /\ argN \in DOMAIN idsNeedAck
    /\ idsNeedAck[argN] # argB
    /\ Size(idsNeedAck) <= MTPIdsBufferSize

\* C4: after shrink the size is <= capacity and the ids kept are exactly
\* the capacity largest held before (all of them if fewer were held), each
\* with its flag; on a window of size <= capacity shrink changes nothing.
C4_ShrinkKeepsLargest ==
    [][op' = "shrink" =>
        /\ Size(idsNeedAck') <= MTPIdsBufferSize
        /\ DOMAIN idsNeedAck' = Largest(DOMAIN idsNeedAck, MTPIdsBufferSize)
        /\ \A x \in DOMAIN idsNeedAck' : idsNeedAck'[x] = idsNeedAck[x]
        /\ Size(idsNeedAck) <= MTPIdsBufferSize => idsNeedAck' = idsNeedAck
    ]_vars

\* C4 witness: shrink has evicted at least two ids at once
C4_Witness ==
    /\ op = "shrink"
    /\ taken
    /\ Size(idsNeedAck) = MTPIdsBufferSize
    /\ Cardinality(DOMAIN given \ DOMAIN idsNeedAck) >= 2

\* C5: once the window holds capacity entries, no registerMsgId and no
\* shrink brings its size below capacity; only clear() does.
C5_SizeStaysAtCapacity ==
    [][(Size(idsNeedAck) >= MTPIdsBufferSize /\ op' # "clear")
          => Size(idsNeedAck') >= MTPIdsBufferSize]_vars

\* C5 witness: a window that went over capacity was cut back to capacity
\* and has refused an evicted id since
C5_Witness ==
    /\ Size(idsNeedAck) = MTPIdsBufferSize
    /\ DOMAIN given # DOMAIN idsNeedAck
    /\ op = "registerMsgId"
    /\ ret = FALSE

(***************************************************************************)
(* Claims about the identity methods of SessionData, checked under         *)
(* SpecSession.                                                            *)
(***************************************************************************)
\* C6: from a zeroed counter, the N-th nextRequestSeqNumber(true) returns
\* 2N-1 and leaves the counter at N; nextRequestSeqNumber(false) returns
\* twice the counter and leaves it unchanged.
C6_SeqNumbers ==
    /\ [](messagesSent = U32(ackCalls))
    /\ [][op' = "nextRequestSeqNumber" =>
            IF argB'
            THEN /\ ret' = U32(2 * (ackCalls + 1) - 1)
                 /\ messagesSent' = U32(ackCalls + 1)
            ELSE /\ ret' = U32(2 * ackCalls)
                 /\ messagesSent' = messagesSent
         ]_vars

\* C6 witness: after one ack-needing call, a call with needAck = false
\* has returned 2 and the counter is still 1
C6_Witness ==
    /\ op = "nextRequestSeqNumber"
    /\ argB = FALSE
    /\ ackCalls = 1
    /\ ret = U32(2)
    /\ messagesSent = U32(1)

\* C7 (SpecThreads): however the calls of the two threads interleave, the
\* ack-needing numbers returned since the counter was last zeroed are
\* pairwise different and strictly increasing in the order in which the
\* calls held _lock.
C7_ConcurrentSeqNumbersIncrease ==
    \A i, j \in 1..Len(issued) :
        i < j => Less32(issued[i].seq, issued[j].seq)

\* C7 witness: both threads have been given numbers in this epoch, and one
\* is inside nextRequestSeqNumber while the other waits for _lock
C7_Witness ==
    /\ Len(issued) >= 2
    /\ {issued[i].by : i \in 1..Len(issued)} = Threads
    /\ \E t, u \in Threads :
          /\ pc[t] = "seq_inc"
          /\ lock.w = t
          /\ pc[u] = "seq_lock"
          /\ loc[t].b /\ loc[u].b

\* C8 (as claimed): setKey(k2) with k2 other than the current key always
\* leaves a sessionId different from the one before, messagesSent = 0 and
\* layerInitialized = false, whatever rand_value returns.
C8_SetKeyNewSession ==
    [][(op' = "setKey" /\ argN' # authKey) =>
          /\ session' # session
          /\ messagesSent' = Zero32
          /\ layerInited' = FALSE
    ]_vars

\* C9: setKey(k) with k the current key changes nothing: sessionId, salt,
\* messagesSent, layerInitialized, the key and the key-checked flag stay.
C9_SetSameKeyNoOp ==
    [][(op' = "setKey" /\ argN' = authKey) =>
          /\ taken' = FALSE
          /\ UNCHANGED <<session, salt, messagesSent, layerInited, authKey, keyChecked>>
    ]_vars

\* C9 witness: setKey with the current key ran on a session that has sent
\* messages, has its layer initialised and its key checked
C9_Witness ==
    /\ op = "setKey"
    /\ ~taken
    /\ argN = authKey
    /\ authKey # 0
    /\ messagesSent # Zero32
    /\ layerInited
    /\ keyChecked

\* C10: setSession(newId) with newId other than the current id stores newId
\* and zeroes messagesSent, so that the next nextRequestSeqNumber(true)
\* returns 1; with the current id it leaves sessionId and messagesSent;
\* salt, key and layerInitialized are unchanged either way.
C10_SetSession ==
    /\ [][op' = "setSession" =>
            /\ IF argN' # session
               THEN session' = argN' /\ messagesSent' = Zero32
               ELSE session' = session /\ messagesSent' = messagesSent
            /\ UNCHANGED <<salt, authKey, layerInited>>
         ]_vars
    /\ [][(op = "setSession" /\ taken /\ op' = "nextRequestSeqNumber" /\ argB')
            => ret' = U32(1)]_vars

\* C10 witness: setSession to a new id ran on a session that had sent
\* messages, and the counter is back at zero
C10_Witness ==
    /\ op = "setSession"
    /\ taken
    /\ session = argN
    /\ prevSent # Zero32
    /\ messagesSent = Zero32

(***************************************************************************)
(* Claims about the locking of SessionData, checked under SpecThreads.     *)
(***************************************************************************)
\* the thread that takes the step holds the write side of _lock
WriterSteps == \E t \in Threads : lock.w = t /\ pc'[t] # pc[t]

\* C11 (as claimed): every identity field, the key reference included, is
\* written only under _lock, so that the new key is never visible together
\* with the old sessionId / layerInitialized / messagesSent, and two setKey
\* calls never both pass the key comparison.
C11_AllFieldsUnderLock ==
    /\ [][authKey' # authKey => WriterSteps]_vars
    /\ [](\A t \in Threads : pc[t] = "key_lock" => lock.w # "none")
    /\ [](~(\A t \in Threads : pc[t] = "key_set"))

\* C11 (amended): _session, _messagesSent and _layerInited are written only
\* by a thread that holds the write side of _lock, and getSession reads
\* _session only under the read side with no writer inside; the key reference
\* is outside the lock: setKey compares and assigns _authKey before it locks.
C11_LockedFieldsUnderLock ==
    /\ [][(session' # session \/ messagesSent' # messagesSent \/ layerInited' # layerInited)
            => WriterSteps]_vars
    /\ [](\A t \in Threads : pc[t] = "get_ret" => (t \in lock.r /\ lock.w = "none"))
    /\ [](\A t \in Threads :
            pc[t] \in {"seq_read", "seq_inc", "seq_ret", "ses_body", "key_body"}
                => (lock.w = t /\ lock.r = {}))

\* C11 witness: one thread has assigned the new key and not yet locked,
\* nobody holds _lock, and the counter of the old session is still there
\* while the other thread reads the session id
C11_Witness ==
    \E t, u \in Threads :
        /\ pc[t] = "key_lock"
        /\ authKey = loc[t].n
        /\ messagesSent # Zero32
        /\ pc[u] = "get_ret"
        /\ lock.w = "none"

\* thread t waits for the write side of _lock and cannot have it now
Blocked(t) ==
    /\ pc[t] \in {"seq_lock", "ses_lock", "key_lock"}
    /\ ~CanLockForWrite(lock)

Holds(t) == lock.w = t \/ t \in lock.r

\* C15 (SpecThreadsFair): a thread inside an identity method holds _lock at
\* most once (as the writer or as a reader) and nothing when it has
\* returned; a thread that waits for _lock waits for another thread that
\* holds it and is not waiting itself, so the threads never deadlock; and
\* every call returns.
C15_NoDeadlockAndTermination ==
    /\ [](\A t \in Threads :
            /\ ~(lock.w = t /\ t \in lock.r)
            /\ pc[t] = "idle" => ~Holds(t)
            /\ Blocked(t) => \E u \in Threads \ {t} : Holds(u) /\ ~Blocked(u))
    /\ \A t \in Threads : (pc[t] # "idle") ~> (pc[t] = "idle")

\* C15 witness: one thread waits for _lock while the other holds it
C15_Witness ==
    \E t, u \in Threads :
        /\ Blocked(t)
        /\ pc[t] = "ses_lock"
        /\ lock.w = u
        /\ pc[u] = "key_body"

\* C16 (SpecWindow): the calls that follow clear() see an empty window:
\* lookup answers NotFound for every id, min and max answer 0 and
\* registerMsgId takes every id; and on a non-empty window min and max
\* answer a tracked id that is the smallest, resp. largest, of the tracked
\* ids.
C16_ClearEmpties ==
    /\ [][op' = "clear" => isEmpty(idsNeedAck')]_vars
    /\ [][op = "clear" =>
            /\ op' = "lookup" => ret' = "NotFound"
            /\ op' \in {"min", "max"} => ret' = 0
            /\ op' = "registerMsgId" => (ret' = TRUE /\ DOMAIN idsNeedAck' = {argN'})]_vars
    /\ []((op = "min" /\ ~isEmpty(idsNeedAck)) =>
            (ret \in DOMAIN idsNeedAck /\ \A k \in DOMAIN idsNeedAck : ret <= k))
    /\ []((op = "max" /\ ~isEmpty(idsNeedAck)) =>
            (ret \in DOMAIN idsNeedAck /\ \A k \in DOMAIN idsNeedAck : k <= ret))

\* C16 witness: clear() has emptied a window that held ids
C16_Witness ==
    /\ op = "clear"
    /\ taken
    /\ isEmpty(idsNeedAck)
    /\ lookup(idsNeedAck, MaxMsgId) = "NotFound"

\* C19 (SpecWindow): registerMsgId keeps every tracked id with its flag; a
\* call that returns true adds exactly one entry, whatever the size was,
\* and a call that returns false changes nothing; an unseen id above min()
\* is always taken; only shrink and clear make the window smaller.
C19_RegisterNeverEvicts ==
    /\ [][op' = "registerMsgId" =>
            /\ \A k \in DOMAIN idsNeedAck :
                  k \in DOMAIN idsNeedAck' /\ idsNeedAck'[k] = idsNeedAck[k]
            /\ ret' = TRUE => Size(idsNeedAck') = Size(idsNeedAck) + 1
            /\ ret' = FALSE => idsNeedAck' = idsNeedAck
            /\ (~Found(idsNeedAck, argN') /\ argN' > min(idsNeedAck)) => ret' = TRUE]_vars
    /\ [][Size(idsNeedAck') < Size(idsNeedAck) => op' \in {"shrink", "clear"}]_vars

\* C19 witness: a registerMsgId has been taken by a window already over the
\* buffer size
C19_Witness ==
    /\ op = "registerMsgId"
    /\ ret = TRUE
    /\ Size(idsNeedAck) = MTPIdsBufferSize + 2

\* C20 (SpecSession): setSalt, setLayerWasInited and setCheckedKey store
\* their argument in their own field and leave every other identity field
\* as it was: the session id, the key, _messagesSent and with it the number
\* the next nextRequestSeqNumber call returns.
C20_SettersChangeOwnFieldOnly ==
    /\ [][op' = "setSalt" =>
            /\ salt' = argN'
            /\ UNCHANGED <<session, messagesSent, authKey, keyChecked, layerInited>>]_vars
    /\ [][op' = "setLayerWasInited" =>
            /\ layerInited' = argB'
            /\ UNCHANGED <<session, salt, messagesSent, authKey, keyChecked>>]_vars
    /\ [][op' = "setCheckedKey" =>
            /\ keyChecked' = argB'
            /\ UNCHANGED <<session, salt, messagesSent, authKey, layerInited>>]_vars
    /\ [][op' \in {"setSalt", "setLayerWasInited", "setCheckedKey"} =>
            \A needAck \in BOOLEAN :
                SeqNumber(messagesSent', needAck) = SeqNumber(messagesSent, needAck)]_vars

\* C20 witness: a new salt has been set in the middle of a series of
\* sequence numbers, and the counter is where it was
C20_Witness ==
    /\ op = "setSalt"
    /\ salt = argN
    /\ salt # 0
    /\ prevSent # Zero32
    /\ messagesSent = prevSent
    /\ session # 0

\* C17 (SpecSession): between two epoch changes (a setSession to another
\* id, a setKey to another key) no number nextRequestSeqNumber returns is
\* below one it returned before, a number returned for needAck = true is
\* above all of them, and a number returned for needAck = false is the
\* last ack-needing number plus 1, or 0 when the epoch has had none.
C17_EpochSeries ==
    [][op' = "nextRequestSeqNumber" =>
        /\ \A v \in returned : ~Less32(ret', v)
        /\ argB' => \A v \in returned : Less32(v, ret')
        /\ ~argB' => ret' = IF lastAck = <<>> THEN Zero32
                                             ELSE Add32(lastAck[1], U32(1))]_vars

\* the same with the clause "0 when the epoch has had none" left to the
\* epochs that began with _messagesSent zeroed
C17_SeriesFromZero ==
    [][op' = "nextRequestSeqNumber" =>
        /\ \A v \in returned : ~Less32(ret', v)
        /\ argB' => \A v \in returned : Less32(v, ret')
        /\ (~argB' /\ lastAck # <<>>) => ret' = Add32(lastAck[1], U32(1))
        /\ (~argB' /\ lastAck = <<>> /\ ackCalls = 0) => ret' = Zero32]_vars

\* a uint32 shifted right by one bit
Shr1(a) == <<a[1] \div 2, (a[1] % 2) * TopBit + a[2] \div 2>>

\* the low 31 bits of a uint32
Low31(a) == <<a[1] % TopBit, a[2]>>

\* C18 as stated (SpecWide): whatever _messagesSent is, the number returned
\* for needAck = true is 2 * _messagesSent + 1 itself, not reduced modulo
\* 2^32, and is above every number returned before it in the epoch.
C18_NeverWraps ==
    [][(op' = "nextRequestSeqNumber" /\ argB') =>
        /\ ret'[2] % 2 = 1
        /\ Shr1(ret') = messagesSent
        /\ \A v \in returned : Less32(v, ret')]_vars

\* C18 amended (SpecWide): the number returned for needAck = true is
\* 2 * _messagesSent + 1 reduced modulo 2^32, which is 2 * _messagesSent + 1
\* itself exactly while _messagesSent < 2^31; it is above the previous
\* ack-needing number of the epoch unless the low 31 bits of _messagesSent
\* are 0 (the counter has just reached 2^31, or has wrapped from 2^32 - 1
\* to 0), and then it is 1, below the previous one.
C18_WrapsAtHalfRange ==
    [][(op' = "nextRequestSeqNumber" /\ argB') =>
        /\ ret'[2] % 2 = 1
        /\ Shr1(ret') = Low31(messagesSent)
        /\ Shr1(ret') = messagesSent <=> messagesSent[1] < TopBit
        /\ messagesSent' = Add32(messagesSent, U32(1))
        /\ (lastAck # <<>> /\ Low31(messagesSent) # Zero32) => Less32(lastAck[1], ret')
        /\ (lastAck # <<>> /\ Low31(messagesSent) = Zero32) =>
              (ret' = U32(1) /\ Less32(ret', lastAck[1]))]_vars

\* C18 witness: the counter has reached 2^31 and the number returned is 1,
\* after 2^32 - 1 was returned in the same epoch
C18_Witness ==
    /\ op = "nextRequestSeqNumber"
    /\ argB
    /\ prevSent = <<TopBit, 0>>
    /\ ret = U32(1)
    /\ <<Half - 1, Half - 1>> \in returned

\* C14 (SpecResponse): ResponseNeedsAck answers true exactly when the
\* message has at least 8 words and the word at index 6 is odd, whatever
\* the other words are; for a message of fewer than 8 words it answers
\* false without reading, and the word it reads is inside the message.
C14_AckBitOfSeqNo ==
    op = "ResponseNeedsAck" =>
        /\ ret = (Len(response) >= MinResponseSize /\ response[SeqNoOffset + 1] % 2 = 1)
        /\ Len(response) < MinResponseSize => (~taken /\ ret = FALSE)
        /\ taken => (argN = SeqNoOffset /\ argN + 1 \in DOMAIN response)

\* C14 witness: true has been answered for a message whose only odd word
\* is the one at index 6
C14_Witness ==
    /\ op = "ResponseNeedsAck"
    /\ ret = TRUE
    /\ Len(response) = MinResponseSize
    /\ \A i \in DOMAIN response : (response[i] % 2 = 1) <=> (i = SeqNoOffset + 1)
    /\ response[SeqNoOffset + 1] < 0

\* C12 (SpecController): kill() ends in Killed with _killed set, whatever
\* the state was; once _killed is set it stays set and the state stays
\* Killed through every later start, restart, stop or other call; and
\* after kill() no call (send, sendPrepared, resend, resendMany, resendAll,
\* checkRequestsByTimer, tryToReceive) changes _toSend, _haveSent,
\* _toResend, the received ids, _messagesSent or the ids given out, and no
\* callback fires.
C12_KillIsTerminal ==
    /\ [][op' = "kill" => (killed' /\ state' = "Killed")]_vars
    /\ [][killed => (killed' /\ state' = "Killed")]_vars
    /\ [][killed => UNCHANGED <<queueVars, idsNeedAck, messagesSent, fired, lastMsgId,
                                lastRequestId>>]_vars
    /\ [](killed <=> state = "Killed")

\* C12 witness: send() has been called on a killed Session that had sent
\* requests and fired a callback before, and has stored nothing
C12_Witness ==
    /\ killed
    /\ state = "Killed"
    /\ op = "send"
    /\ ret = 0
    /\ isEmpty(toSend)
    /\ fired # {}
    /\ lastMsgId = MaxSent

====
